---- MODULE Spec2Model ----
(***************************************************************************)
(* JointDistributionNamed: resolution of a named collection of             *)
(* distribution makers into an evaluation order with positional argument   *)
(* descriptors (_depth, _best_order, _prob_chain_rule_flatten), the        *)
(* wrappers built by _make, and the _flatten / _unflatten adapters.        *)
(*                                                                         *)
(* A collection (an insertion-ordered dict) is a sequence of entries       *)
(* [name, args]; args is what the dependency extraction of lines 244-246   *)
(* yields for the maker: None, or the tuple of required argument names.    *)
(* "None or a tuple" is the record [none, v].                              *)
(***************************************************************************)
EXTENDS Integers, Sequences, FiniteSets, TLC

VARIABLES
  named_makers,     \* the collection handed to _prob_chain_rule_flatten
  pc,               \* where the resolution is; or the exception it raised
  depth,            \* _Node.depth of every node of annotated_graph
  it,               \* index of the next element of the running for loop
  order,            \* the sorted node list the loop of line 224 walks
  stack,            \* frames of the recursive _explore calls, innermost last
  result,           \* the list `result` of _best_order
  g,                \* the tuple returned by _best_order (line 247)
  dist_fn,          \* the four tuples returned at line 253
  dist_fn_wrapped,
  dist_fn_args,
  dist_fn_name,
  op,               \* the last operation called on the built object
  arg,              \* the structure last given to _flatten
  ret               \* what the last operation returned

vars == <<named_makers, pc, depth, it, order, stack, result, g, dist_fn,
          dist_fn_wrapped, dist_fn_args, dist_fn_name, op, arg, ret>>

resolution == <<pc, depth, it, order, stack, result, g, dist_fn,
                dist_fn_wrapped, dist_fn_args, dist_fn_name>>

----------------------------------------------------------------------------
(* Bounds of the model. *)

\* The longest tuple of required arguments a generated maker declares.
MaxArgs == 2

\* The interpreter's recursion limit, scaled to the model: deeper than any
\* chain of an acyclic collection of the model, so only a cycle reaches it.
RecursionLimit == 6

\* How many resolved names a structure handed to _flatten may lack.
MaxMissing == 1

\* Keys of the generated collections, in insertion order.
KeyPool == <<"a", "b", "c", "d">>

\* Keys of the generated collections that may be cyclic or not closed.
SmallPool == <<"a", "b">>

\* An argument name that is no key of any collection.
Missing == "z"

----------------------------------------------------------------------------
(* Values. *)

None == [none |-> TRUE, v |-> <<>>]

Tuple(s) == [none |-> FALSE, v |-> s]

\* The placeholder of line 220.
Placeholder == "_"

Range(s) == {s[i] : i \in DOMAIN s}

Reverse(s) == [i \in 1..Len(s) |-> s[Len(s) + 1 - i]]

Max2(x, y) == IF x >= y THEN x ELSE y

\* The maker object stored under key k, and the value the distribution at
\* key k produces: opaque, one per key.
Maker(k) == <<"maker", k>>

Sample(k) == <<"sample", k>>

----------------------------------------------------------------------------
(* The collection as a mapping. *)

Keys(m) == {m[i].name : i \in DOMAIN m}

KeySeq(m) == [i \in DOMAIN m |-> m[i].name]

Index(m, k) == CHOOSE i \in DOMAIN m : m[i].name = k

\* _Node.parents: the declared arguments (None for a distribution instance).
NodeParents(m, k) == m[Index(m, k)].args

\* `if v.parents` / `if not u.parents`: None and () are both falsy.
HasParents(m, k) == Len(NodeParents(m, k).v) > 0

----------------------------------------------------------------------------
(* sorted(..., key=lambda v: v.depth): a stable sort, as Python's is.       *)

\* As InsertAscending, but x goes before the elements of equal key.
RECURSIVE InsertAscending_Unstable(_, _, _)
InsertAscending_Unstable(s, x, key) ==
  IF s = <<>> THEN <<x>>
  ELSE IF key[Head(s)] < key[x]
       THEN <<Head(s)>> \o InsertAscending_Unstable(Tail(s), x, key)
       ELSE <<x>> \o s

RECURSIVE InsertAscending(_, _, _)
InsertAscending(s, x, key) ==
  IF s = <<>> THEN <<x>>
  ELSE IF key[Head(s)] <= key[x]
       THEN <<Head(s)>> \o InsertAscending(Tail(s), x, key)
       ELSE <<x>> \o s

RECURSIVE SortedAscending(_, _)
SortedAscending(s, key) ==
  IF s = <<>> THEN <<>>
  ELSE InsertAscending(SortedAscending(SubSeq(s, 1, Len(s) - 1), key),
                       s[Len(s)], key)

\* reverse=True keeps equal elements in their original order too.
RECURSIVE InsertDescending(_, _, _)
InsertDescending(s, x, key) ==
  IF s = <<>> THEN <<x>>
  ELSE IF key[Head(s)] >= key[x]
       THEN <<Head(s)>> \o InsertDescending(Tail(s), x, key)
       ELSE <<x>> \o s

RECURSIVE SortedDescending(_, _)
SortedDescending(s, key) ==
  IF s = <<>> THEN <<>>
  ELSE InsertDescending(SortedDescending(SubSeq(s, 1, Len(s) - 1), key),
                        s[Len(s)], key)

----------------------------------------------------------------------------
(* The collections the model resolves. *)

Injective(s) == \A i, j \in DOMAIN s : s[i] = s[j] => i = j

\* Tuples of distinct argument names (a signature names a parameter once).
ArgTuples(S, n) ==
  UNION {{s \in [1..l -> S] : Injective(s)} : l \in 0..n}

ArgChoices(S, n) == {None} \cup {Tuple(s) : s \in ArgTuples(S, n)}

Prefix(pool, n) == SubSeq(pool, 1, n)

\* Every collection with the keys ks whose makers draw their arguments from
\* U, or from U less the maker's own key.
RECURSIVE Collections(_, _, _)
Collections(ks, U, self) ==
  IF ks = <<>> THEN {<<>>}
  ELSE LET k == ks[Len(ks)]
           S == IF self THEN U ELSE U \ {k}
       IN  {Append(m, [name |-> k, args |-> a]) :
              m \in Collections(SubSeq(ks, 1, Len(ks) - 1), U, self),
              a \in ArgChoices(S, MaxArgs)}

\* Closed: every declared argument is a key.
Closed(m) == \A i \in DOMAIN m : Range(m[i].args.v) \subseteq Keys(m)

\* Acyclic: peeling off the nodes whose parents are all peeled leaves nothing.
RECURSIVE Peel(_, _)
Peel(m, S) ==
  LET free == {k \in S : Range(NodeParents(m, k).v) \cap S = {}}
  IN  IF free = {} THEN S ELSE Peel(m, S \ free)

Acyclic(m) == Peel(m, Keys(m)) = {}

WellFormed(m) == Closed(m) /\ Acyclic(m)

\* The model of the class docstring (lines 78-84).
DocModel ==
  << [name |-> "e", args |-> None],
     [name |-> "g", args |-> Tuple(<<"e">>)],
     [name |-> "n", args |-> None],
     [name |-> "m", args |-> Tuple(<<"n", "g">>)],
     [name |-> "x", args |-> Tuple(<<"m">>)] >>

WellFormedCollections ==
  UNION {{m \in Collections(Prefix(KeyPool, n), Range(Prefix(KeyPool, n)), FALSE) :
            Acyclic(m)} : n \in 0..Len(KeyPool)}

SmallCollections ==
  UNION {Collections(Prefix(SmallPool, n),
                     Range(Prefix(SmallPool, n)) \cup {Missing}, TRUE) :
           n \in 1..Len(SmallPool)}

InputCollections == WellFormedCollections \cup SmallCollections \cup {DocModel}

----------------------------------------------------------------------------
(* Construction: _build calls _prob_chain_rule_flatten(model); the graph of *)
(* lines 244-246 is built and _best_order calls _depth, whose              *)
(* annotated_graph has every depth at -1.                                  *)

Init ==
  /\ named_makers \in InputCollections
  /\ pc = "depth"
  /\ depth = [k \in Keys(named_makers) |-> -1]
  /\ it = 1
  /\ order = <<>>
  /\ stack = <<>>
  /\ result = <<>>
  /\ g = <<>>
  /\ dist_fn = <<>>
  /\ dist_fn_wrapped = <<>>
  /\ dist_fn_args = <<>>
  /\ dist_fn_name = <<>>
  /\ op = "none"
  /\ arg = [kind |-> "None", vals |-> <<>>]
  /\ ret = None

Top == stack[Len(stack)]

Pop == SubSeq(stack, 1, Len(stack) - 1)

----------------------------------------------------------------------------
(* _depth (lines 188-199).  A frame [v, k, m] is a call _explore(v) that    *)
(* found v.depth < 0 and v.parents truthy: k is the parent the list        *)
(* comprehension evaluates next, m the max of [-1] and the values so far.  *)

\* _explore(v) returns at once: the depth is set, or there are no parents.
DepthImmediate(v) == depth[v] >= 0 \/ ~HasParents(named_makers, v)

\* The value such a call returns (it sets depth to 0 when it was unset).
DepthValue(v) == IF depth[v] >= 0 THEN depth[v] ELSE 0

DepthAfter(v) == [depth EXCEPT ![v] = DepthValue(v)]

\* The caller's frame takes the value r of the call it was waiting for.
DepthResume(frames, r) ==
  IF frames = <<>> THEN frames
  ELSE [frames EXCEPT ![Len(frames)] =
          [@ EXCEPT !.k = @ + 1, !.m = Max2(@, r)]]

\* for v in annotated_graph.values(): _explore(v)
DepthLoop ==
  /\ pc = "depth"
  /\ stack = <<>>
  /\ it <= Len(named_makers)
  /\ LET v == named_makers[it].name
     IN  IF DepthImmediate(v)
         THEN /\ depth' = DepthAfter(v)
              /\ stack' = stack
         ELSE /\ stack' = <<[v |-> v, k |-> 1, m |-> -1]>>
              /\ depth' = depth
  /\ it' = it + 1
  /\ UNCHANGED <<named_makers, pc, order, result, g, dist_fn, dist_fn_wrapped,
                 dist_fn_args, dist_fn_name, op, arg, ret>>

\* The next parent u of the innermost call.
DepthParent == NodeParents(named_makers, Top.v).v[Top.k]

DepthPending ==
  /\ pc = "depth"
  /\ stack # <<>>
  /\ Top.k <= Len(NodeParents(named_makers, Top.v).v)

\* _explore(annotated_graph[u]) for the next parent u.
DepthDescend ==
  /\ DepthPending
  /\ DepthParent \in Keys(named_makers)
  /\ LET u == DepthParent
     IN  IF DepthImmediate(u)
         THEN /\ depth' = DepthAfter(u)
              /\ stack' = DepthResume(stack, DepthValue(u))
         ELSE /\ Len(stack) < RecursionLimit
              /\ stack' = Append(stack, [v |-> u, k |-> 1, m |-> -1])
              /\ depth' = depth
  /\ UNCHANGED <<named_makers, pc, it, order, result, g, dist_fn,
                 dist_fn_wrapped, dist_fn_args, dist_fn_name, op, arg, ret>>

\* As DepthKeyError, but the lookup yields nothing and the parent is skipped.
DepthKeyError_Skipped ==
  /\ pc = "depth"
  /\ stack # <<>>
  /\ Top.k <= Len(NodeParents(named_makers, Top.v).v)
  /\ NodeParents(named_makers, Top.v).v[Top.k] \notin Keys(named_makers)
  /\ stack' = DepthResume(stack, -1)
  /\ UNCHANGED <<named_makers, pc, depth, it, order, result, g, dist_fn,
                 dist_fn_wrapped, dist_fn_args, dist_fn_name, op, arg, ret>>

\* annotated_graph[u] for a name u that is no key.
DepthKeyError ==
  /\ DepthPending
  /\ DepthParent \notin Keys(named_makers)
  /\ pc' = "KeyError"
  /\ UNCHANGED <<named_makers, depth, it, order, stack, result, g, dist_fn,
                 dist_fn_wrapped, dist_fn_args, dist_fn_name, op, arg, ret>>

\* One call too deep: the interpreter raises RecursionError.
DepthRecursionError ==
  /\ DepthPending
  /\ DepthParent \in Keys(named_makers)
  /\ ~DepthImmediate(DepthParent)
  /\ Len(stack) >= RecursionLimit
  /\ pc' = "RecursionError"
  /\ UNCHANGED <<named_makers, depth, it, order, stack, result, g, dist_fn,
                 dist_fn_wrapped, dist_fn_args, dist_fn_name, op, arg, ret>>

\* The comprehension is exhausted: v.depth = 1 + max(...); return v.depth.
DepthReturn ==
  /\ pc = "depth"
  /\ stack # <<>>
  /\ Top.k > Len(NodeParents(named_makers, Top.v).v)
  /\ depth' = [depth EXCEPT ![Top.v] = 1 + Top.m]
  /\ stack' = DepthResume(Pop, 1 + Top.m)
  /\ UNCHANGED <<named_makers, pc, it, order, result, g, dist_fn,
                 dist_fn_wrapped, dist_fn_args, dist_fn_name, op, arg, ret>>

----------------------------------------------------------------------------
(* _best_order (lines 202-226).  A frame [u, b, vs, k, d, n0] is a call     *)
(* _explore(u) of a node with parents: b is the index in result of the     *)
(* entry (u.name, []) it appended, vs the sorted parents, k the next one,  *)
(* d and n0 the locals of the loop.                                        *)

\* g = _depth(g); result = []; sorted(g.values(), key=depth, reverse=True)
PackBegin ==
  /\ pc = "depth"
  /\ stack = <<>>
  /\ it > Len(named_makers)
  /\ pc' = "pack"
  /\ order' = SortedDescending(KeySeq(named_makers), depth)
  /\ result' = <<>>
  /\ it' = 1
  /\ UNCHANGED <<named_makers, depth, stack, g, dist_fn, dist_fn_wrapped,
                 dist_fn_args, dist_fn_name, op, arg, ret>>

\* As PackImmediate, without the check of line 206 for a node with parents.
PackImmediate_NoVisitedCheck(u) == ~HasParents(named_makers, u)

\* _explore(u) returns at once: u is visited, or has no parents.
PackImmediate(u) == depth[u] < 0 \/ ~HasParents(named_makers, u)

\* result after such a call: (u.name, u.parents) is appended unless visited.
PackResultAfter(u) ==
  IF depth[u] < 0 THEN result
  ELSE Append(result, [name |-> u, args |-> NodeParents(named_makers, u)])

\* As MarkVisited, but the depth is left as it is.
MarkVisited_Forgets(u) == depth

\* u.depth = -1  # Mark visited.
MarkVisited(u) == [depth EXCEPT ![u] = -1]

\* As SortedParents, but deepest parent first.
SortedParents_Descending(u) ==
  SortedDescending(NodeParents(named_makers, u).v, [depth EXCEPT ![u] = -1])

\* sorted((g.get(p) for p in u.parents), key=lambda v: v.depth), evaluated
\* after u was marked visited.
SortedParents(u) ==
  SortedAscending(NodeParents(named_makers, u).v, MarkVisited(u))

\* The frame of a call _explore(u) that goes on to its parents.
PackFrame(u) ==
  [u |-> u, b |-> Len(result) + 1, vs |-> SortedParents(u), k |-> 1,
   d |-> 0, n0 |-> 0]

\* b = (u.name, []); result.append(b)
PackReserve(u) == Append(result, [name |-> u, args |-> Tuple(<<>>)])

\* ['_'] * d: the empty list when d <= 0.
Pad(d) == [i \in 1..d |-> Placeholder]

\* As PackExtend, but the offsets are assigned, not extended.
PackExtend_Assign(res, f, v) ==
  [res EXCEPT ![f.b].args = Tuple(Pad(f.d) \o <<v>>)]

\* b[1].extend(['_']*d + [v.name]) in the frame f, for its parent v, on the
\* result res the call has left.
PackExtend(res, f, v) ==
  [res EXCEPT ![f.b].args = Tuple(@.v \o Pad(f.d) \o <<v>>)]

\* n1 = len(result); d = n1 - n0 - 1; on to the next parent.
PackAdvance(f, n0, n1) == [f EXCEPT !.k = @ + 1, !.d = n1 - n0 - 1, !.n0 = n0]

\* for u in sorted(...): _explore(u)
PackLoop ==
  /\ pc = "pack"
  /\ stack = <<>>
  /\ it <= Len(order)
  /\ LET u == order[it]
     IN  IF PackImmediate(u)
         THEN /\ result' = PackResultAfter(u)
              /\ stack' = stack
         ELSE /\ result' = PackReserve(u)
              /\ stack' = <<PackFrame(u)>>
  /\ depth' = MarkVisited(order[it])
  /\ it' = it + 1
  /\ UNCHANGED <<named_makers, pc, order, g, dist_fn, dist_fn_wrapped,
                 dist_fn_args, dist_fn_name, op, arg, ret>>

\* n0 = len(result); _explore(v) for the next sorted parent v.
PackDescend ==
  /\ pc = "pack"
  /\ stack # <<>>
  /\ Top.k <= Len(Top.vs)
  /\ LET v  == Top.vs[Top.k]
         n0 == Len(result)
     IN  IF PackImmediate(v)
         THEN LET res == PackResultAfter(v)
              IN  /\ result' = PackExtend(res, Top, v)
                  /\ stack' = [stack EXCEPT ![Len(stack)] =
                                 PackAdvance(Top, n0, Len(res))]
         ELSE /\ result' = PackReserve(v)
              /\ stack' = Append([stack EXCEPT ![Len(stack)].n0 = n0],
                                 PackFrame(v))
  /\ depth' = MarkVisited(Top.vs[Top.k])
  /\ UNCHANGED <<named_makers, pc, it, order, g, dist_fn, dist_fn_wrapped,
                 dist_fn_args, dist_fn_name, op, arg, ret>>

\* The loop over the parents is over: return; the caller records the parent.
PackReturn ==
  /\ pc = "pack"
  /\ stack # <<>>
  /\ Top.k > Len(Top.vs)
  /\ IF Len(stack) = 1
     THEN /\ stack' = <<>>
          /\ result' = result
     ELSE LET f == stack[Len(stack) - 1]
          IN  /\ result' = PackExtend(result, f, f.vs[f.k])
              /\ stack' = [Pop EXCEPT ![Len(stack) - 1] =
                             PackAdvance(f, f.n0, Len(result))]
  /\ UNCHANGED <<named_makers, pc, depth, it, order, g, dist_fn,
                 dist_fn_wrapped, dist_fn_args, dist_fn_name, op, arg, ret>>

\* return tuple(reversed(result))
BestOrderReturn ==
  /\ pc = "pack"
  /\ stack = <<>>
  /\ it > Len(order)
  /\ g' = Reverse(result)
  /\ pc' = "unpack"
  /\ UNCHANGED <<named_makers, depth, it, order, stack, result, dist_fn,
                 dist_fn_wrapped, dist_fn_args, dist_fn_name, op, arg, ret>>

----------------------------------------------------------------------------
(* _prob_chain_rule_flatten after _best_order (lines 248-253), and _make.   *)

\* named_makers[name] / named_makers.get(n): the maker stored under the key.
Get(m, k) == Maker(m[Index(m, k)].name)

\* _make(dist_fn, args): the closure keeps both.
Make(fn, args) == [dist_fn |-> fn, args |-> args]

\* dist_fn_name, dist_fn_args = zip(*g) has nothing to unpack when g is ().
UnpackValueError ==
  /\ pc = "unpack"
  /\ g = <<>>
  /\ pc' = "ValueError"
  /\ UNCHANGED <<named_makers, depth, it, order, stack, result, g, dist_fn,
                 dist_fn_wrapped, dist_fn_args, dist_fn_name, op, arg, ret>>

Unpack ==
  /\ pc = "unpack"
  /\ g # <<>>
  /\ dist_fn_name' = [i \in DOMAIN g |-> g[i].name]
  /\ dist_fn_args' = [i \in DOMAIN g |-> g[i].args]
  /\ dist_fn_wrapped' =
       [i \in DOMAIN g |-> Make(Get(named_makers, g[i].name), g[i].args)]
  /\ dist_fn' = [i \in DOMAIN g |-> Get(named_makers, g[i].name)]
  /\ pc' = "ready"
  /\ UNCHANGED <<named_makers, depth, it, order, stack, result, g, op, arg, ret>>

\* xs[-n:] for n >= 1: the last n elements, all of xs when it is shorter.
Tail_n(xs, n) == SubSeq(xs, Max2(1, Len(xs) - n + 1), Len(xs))

Min2(x, y) == IF x <= y THEN x ELSE y

\* dict(zip(args, reversed(xs[-len(args):]))); kwargs.pop('_', None)
Kwargs(args, xs) ==
  LET rev == Reverse(Tail_n(xs, Len(args)))
      n   == Min2(Len(args), Len(rev))
      last(p) == CHOOSE j \in 1..n :
                   /\ args[j] = p
                   /\ \A l \in 1..n : args[l] = p => l <= j
  IN  [p \in {args[j] : j \in 1..n} \ {Placeholder} |-> rev[last(p)]]

\* The wrapper w called with the outputs xs: what it does with dist_fn.
\* A distribution instance is returned as it is; a maker is called with the
\* keyword arguments, () for one that declares none.
Fn(w, xs) ==
  IF w.args.none THEN [how |-> "instance", dist_fn |-> w.dist_fn, kwargs |-> <<>>]
  ELSE IF w.args.v = <<>>
       THEN [how |-> "call", dist_fn |-> w.dist_fn, kwargs |-> <<>>]
       ELSE [how |-> "call", dist_fn |-> w.dist_fn,
             kwargs |-> Kwargs(w.args.v, xs)]

\* The outputs of the positions before i, in resolved order: what the
\* sequential executor hands the wrapper at position i.
History(i) == [j \in 1..(i - 1) |-> Sample(dist_fn_name[j])]

CallWrapped(i) ==
  /\ pc = "ready"
  /\ op = "none"
  /\ i \in DOMAIN dist_fn_wrapped
  /\ op' = "call"
  /\ ret' = [pos |-> i, out |-> Fn(dist_fn_wrapped[i], History(i))]
  /\ UNCHANGED <<named_makers, resolution, arg>>

----------------------------------------------------------------------------
(* _flatten and _unflatten (lines 168-177).  A named structure is           *)
(* [kind, vals]: None, a mapping (it has `get`) or a record with fields.   *)
(* No method changes the built object, so a behaviour observes one: a      *)
(* wrapper call, a _flatten, or a _flatten and the _unflatten of its tuple.*)

NoneValue == <<"None">>

Value(k) == <<"value", k>>

NoStructure == [kind |-> "None", vals |-> <<>>]

ResolvedNames == Range(dist_fn_name)

\* The structures handed to _flatten: None, and the mappings and records
\* that hold Value(k) under all but a few of the resolved names.
Structures ==
  {NoStructure} \cup
  {[kind |-> c, vals |-> [k \in S |-> Value(k)]] :
     c \in {"dict", "record"},
     S \in {T \in SUBSET ResolvedNames :
              Cardinality(ResolvedNames \ T) <= MaxMissing}}

\* As FlattenFails, but a mapping is indexed like a record.
FlattenFails_AnyKind(x) ==
  /\ x.kind # "None"
  /\ \E i \in DOMAIN dist_fn_name : dist_fn_name[i] \notin DOMAIN x.vals

\* getattr(xs, n) of a record without the field n raises AttributeError.
FlattenFails(x) ==
  /\ x.kind = "record"
  /\ \E i \in DOMAIN dist_fn_name : dist_fn_name[i] \notin DOMAIN x.vals

\* As flatten, but the slots follow the insertion order of the collection.
flatten_InsertionOrder(x) ==
  IF x.kind = "None" THEN [i \in DOMAIN dist_fn_name |-> NoneValue]
  ELSE [i \in DOMAIN named_makers |->
          IF named_makers[i].name \in DOMAIN x.vals
          THEN x.vals[named_makers[i].name] ELSE NoneValue]

flatten(x) ==
  IF x.kind = "None" THEN [i \in DOMAIN dist_fn_name |-> NoneValue]
  ELSE IF x.kind = "dict"
       THEN [i \in DOMAIN dist_fn_name |->
               IF dist_fn_name[i] \in DOMAIN x.vals
               THEN x.vals[dist_fn_name[i]] ELSE NoneValue]
       ELSE [i \in DOMAIN dist_fn_name |-> x.vals[dist_fn_name[i]]]

Flatten(x) ==
  /\ pc = "ready"
  /\ op = "none"
  /\ x \in Structures
  /\ ~FlattenFails(x)
  /\ op' = "flatten"
  /\ arg' = x
  /\ ret' = [ok |-> TRUE, v |-> flatten(x)]
  /\ UNCHANGED <<named_makers, resolution>>

FlattenAttributeError(x) ==
  /\ pc = "ready"
  /\ op = "none"
  /\ x \in Structures
  /\ FlattenFails(x)
  /\ op' = "flatten"
  /\ arg' = x
  /\ ret' = [ok |-> FALSE, v |-> <<>>]
  /\ UNCHANGED <<named_makers, resolution>>

\* kwargs = dict(zip(self._dist_fn_name, tuple(xs)))
Zip(names, xs) ==
  LET n == Min2(Len(names), Len(xs))
      last(k) == CHOOSE j \in 1..n :
                   /\ names[j] = k
                   /\ \A l \in 1..n : names[l] = k => l <= j
  IN  [k \in {names[j] : j \in 1..n} |-> xs[last(k)]]

\* type(self._original_model)(**kwargs): a namedtuple type takes exactly
\* its fields, the keys of the collection.
unflatten(type, xs) ==
  LET kwargs == Zip(dist_fn_name, xs)
  IN  IF type = "namedtuple" /\ DOMAIN kwargs # Keys(named_makers)
      THEN [ok |-> FALSE, type |-> "TypeError", v |-> <<>>]
      ELSE [ok |-> TRUE, type |-> type, v |-> kwargs]

\* _unflatten of the tuple _flatten returned.  _original_model is kept by
\* the base class; its type is an input here.
Unflatten(type) ==
  /\ pc = "ready"
  /\ op = "flatten"
  /\ ret.ok
  /\ op' = "unflatten"
  /\ ret' = unflatten(type, ret.v)
  /\ UNCHANGED <<named_makers, resolution, arg>>

----------------------------------------------------------------------------
Resolve ==
  \/ DepthLoop
  \/ DepthDescend
  \/ DepthKeyError
  \/ DepthRecursionError
  \/ DepthReturn
  \/ PackBegin
  \/ PackLoop
  \/ PackDescend
  \/ PackReturn
  \/ BestOrderReturn
  \/ UnpackValueError
  \/ Unpack

Next ==
  \/ Resolve
  \/ \E i \in 1..Len(dist_fn_wrapped) : CallWrapped(i)
  \/ \E x \in Structures : Flatten(x)
  \/ \E x \in Structures : FlattenAttributeError(x)
  \/ \E type \in {"dict", "namedtuple"} : Unflatten(type)

Spec == Init /\ [][Next]_vars

\* The resolution alone: one synchronous call, which takes its next step
\* as long as it has one.
FairSpec == Init /\ [][Resolve]_vars /\ WF_vars(Resolve)

----------------------------------------------------------------------------
(* Properties. *)

N == Len(named_makers)

\* The declared argument names of the producer k.
Declared(k) == NodeParents(named_makers, k).v

\* The names of a tuple of entries.
Names(entries) == [i \in DOMAIN entries |-> entries[i].name]

\* s holds every element of S exactly once.
IsPermutation(s, S) == Range(s) = S /\ Injective(s)

\* The slots of an offset list that are not the placeholder.
Named(o) == SelectSeq(o, LAMBDA a : a # Placeholder)

Resolved == pc = "ready"

\* Some producer is a parent of two or more producers.
SharedParent ==
  \E p \in Keys(named_makers) :
    Cardinality({k \in Keys(named_makers) : p \in Range(Declared(k))}) >= 2

\* C1: the resolved order of a closed, acyclic collection is topological:
\* every parent of a producer stands at a position before the producer's.
C1_TopologicalOrder ==
  (Resolved /\ WellFormed(named_makers)) =>
    \A i \in DOMAIN dist_fn_name :
      \A p \in Range(Declared(dist_fn_name[i])) :
        \E j \in 1..(i - 1) : dist_fn_name[j] = p

\* C2: the wrapper of a producer with declared arguments, handed the outputs
\* of the positions before it, binds exactly the declared argument names,
\* each to the output of the producer of that name.
C2_WrapperBindsArguments ==
  (op = "call" /\ WellFormed(named_makers)
     /\ Declared(dist_fn_name[ret.pos]) # <<>>) =>
    /\ DOMAIN ret.out.kwargs = Range(Declared(dist_fn_name[ret.pos]))
    /\ \A p \in DOMAIN ret.out.kwargs : ret.out.kwargs[p] = Sample(p)

\* Position i of the four tuples refers to the producer named at i.
Aligned ==
  /\ Len(dist_fn) = N /\ Len(dist_fn_wrapped) = N
  /\ Len(dist_fn_args) = N /\ Len(dist_fn_name) = N
  /\ \A i \in 1..N :
       LET k == dist_fn_name[i]
       IN  /\ dist_fn[i] = Maker(k)
           /\ dist_fn_wrapped[i].dist_fn = Maker(k)
           /\ dist_fn_wrapped[i].args = dist_fn_args[i]
           /\ dist_fn_args[i].none = NodeParents(named_makers, k).none
           /\ Range(Named(dist_fn_args[i].v)) = Range(Declared(k))

\* C3 as stated: a closed, acyclic collection of N producers resolves to
\* four aligned tuples of length N that name every producer exactly once.
C3_AlignedPermutation_Original ==
  (WellFormed(named_makers) /\ pc \in {"ready", "ValueError"}) =>
    /\ Resolved
    /\ IsPermutation(dist_fn_name, Keys(named_makers))
    /\ Aligned

\* C3, amended: the same of every collection that is not empty; the names
\* _best_order returns are a permutation of the keys of any collection.
C3_AlignedPermutation ==
  /\ (WellFormed(named_makers) /\ pc \in {"unpack", "ready", "ValueError"}) =>
       IsPermutation(Names(g), Keys(named_makers))
  /\ (WellFormed(named_makers) /\ N >= 1 /\ pc \in {"ready", "ValueError"}) =>
       /\ Resolved
       /\ IsPermutation(dist_fn_name, Keys(named_makers))
       /\ Aligned

C3_Witness ==
  /\ Resolved /\ N = 4 /\ SharedParent
  /\ IsPermutation(dist_fn_name, Keys(named_makers))

\* C4 as stated: a node with declared arguments has as many offset slots,
\* placeholders included, as declared arguments.
C4_SlotsEqualArguments_Original ==
  Resolved =>
    \A i \in DOMAIN dist_fn_args :
      Declared(dist_fn_name[i]) # <<>> =>
        Len(dist_fn_args[i].v) = Len(Declared(dist_fn_name[i]))

\* C4, amended: the slots that are not placeholders are as many as the
\* declared arguments and name each of them once; placeholders come on top.
C4_NamedSlotsEqualArguments ==
  Resolved =>
    \A i \in DOMAIN dist_fn_args :
      Declared(dist_fn_name[i]) # <<>> =>
        /\ Len(Named(dist_fn_args[i].v)) = Len(Declared(dist_fn_name[i]))
        /\ Range(Named(dist_fn_args[i].v)) = Range(Declared(dist_fn_name[i]))
        /\ Len(dist_fn_args[i].v) >= Len(Declared(dist_fn_name[i]))

C4_Witness ==
  /\ Resolved
  /\ \E i \in DOMAIN dist_fn_args :
       /\ Placeholder \in Range(dist_fn_args[i].v)
       /\ Len(Named(dist_fn_args[i].v)) = Len(Declared(dist_fn_name[i]))

Failed == pc \in {"KeyError", "RecursionError"}

\* C5: a collection with a declared argument that is no key fails while the
\* depths are annotated: the resolution goes on until it raises, no order
\* is returned, no wrapper is built and nothing is invoked.
C5_MissingDependencyFails ==
  ~Closed(named_makers) =>
    /\ pc \in {"depth", "KeyError", "RecursionError"}
    /\ Failed \/ ENABLED Resolve
    /\ g = <<>> /\ dist_fn_wrapped = <<>> /\ op = "none"

C5_Witness ==
  /\ ~Closed(named_makers) /\ pc = "KeyError"
  /\ g = <<>> /\ op = "none"

\* C6: _unflatten(_flatten(x)) has exactly the resolved names, each with
\* x's value when x has the name and None when it has not.
C6_RoundTrip ==
  op = "unflatten" =>
    /\ ret.ok
    /\ DOMAIN ret.v = ResolvedNames
    /\ \A k \in ResolvedNames :
         ret.v[k] = IF k \in DOMAIN arg.vals THEN arg.vals[k] ELSE NoneValue

C6_Witness ==
  /\ op = "unflatten" /\ ret.ok /\ N = 4
  /\ arg.kind = "dict"
  /\ DOMAIN arg.vals # ResolvedNames
  /\ dist_fn_name # KeySeq(named_makers)
  /\ \E k \in DOMAIN arg.vals : ret.v[k] = Value(k)

\* The tuple with one slot per resolved name, None where x lacks the name.
Permissive(x) ==
  [i \in DOMAIN dist_fn_name |->
     IF dist_fn_name[i] \in DOMAIN x.vals
     THEN x.vals[dist_fn_name[i]] ELSE NoneValue]

\* C7 as stated: _flatten never fails, for mappings and for records: it
\* returns the slots in resolved order with None for every absent name.
C7_FlattenNeverFails_Original ==
  op = "flatten" => (ret.ok /\ ret.v = Permissive(arg))

\* C7, amended: so it is for None and for mappings; a record that lacks a
\* resolved name makes _flatten raise AttributeError.
C7_FlattenPermissiveForMappings ==
  op = "flatten" =>
    IF arg.kind = "record" /\ ~(ResolvedNames \subseteq DOMAIN arg.vals)
    THEN ~ret.ok
    ELSE ret.ok /\ Len(ret.v) = Len(dist_fn_name) /\ ret.v = Permissive(arg)

C7_Witness ==
  /\ op = "flatten" /\ ret.ok
  /\ arg.kind = "dict"
  /\ \E i \in DOMAIN dist_fn_name :
       dist_fn_name[i] \notin DOMAIN arg.vals /\ ret.v[i] = NoneValue

\* C8: the documented model resolves to e, g, n, m, x with the argument
\* lists (e), (n, g), (m) and none for e and n.
C8_DocumentedExample ==
  (named_makers = DocModel /\ pc \in {"ready", "ValueError"}) =>
    /\ dist_fn_name = <<"e", "g", "n", "m", "x">>
    /\ dist_fn_args = <<None, Tuple(<<"e">>), None, Tuple(<<"n", "g">>),
                        Tuple(<<"m">>)>>

C8_Witness ==
  /\ named_makers = DocModel /\ Resolved
  /\ dist_fn_name = <<"e", "g", "n", "m", "x">>

\* _best_order has returned with every node emitted and marked visited.
AllVisited ==
  /\ pc \in {"unpack", "ready", "ValueError"}
  /\ \A k \in Keys(named_makers) : depth[k] = -1 /\ k \in Range(Names(g))

\* C9: the resolution of a closed, acyclic collection terminates with every
\* node visited; with a cycle _depth never returns.
C9_ResolutionTerminates ==
  /\ (WellFormed(named_makers) ~> AllVisited)
  /\ [](~Acyclic(named_makers) =>
          pc \in {"depth", "KeyError", "RecursionError"})

C9_Witness == AllVisited /\ N = 4 /\ SharedParent

\* The first position of k in the tuple s.
PositionIn(s, k) == CHOOSE i \in DOMAIN s : s[i] = k /\ \A j \in 1..(i - 1) : s[j] # k

\* The loop of line 224 is about to start: depth is what the sort read.
OrderJustSorted == pc = "pack" /\ it = 1 /\ stack = <<>>

\* The innermost call has just sorted its parents: depth is what it read.
ParentsJustSorted == pc = "pack" /\ stack # <<>> /\ Top.k = 1

\* Nodes of equal depth start their explorations in insertion order.
StartsInInsertionOrder ==
  OrderJustSorted =>
    \A i, j \in DOMAIN order :
      (i < j /\ depth[order[i]] = depth[order[j]]) =>
        Index(named_makers, order[i]) < Index(named_makers, order[j])

\* C10 as stated: ties among starting nodes and ties among the parents of
\* a node are both broken by the insertion order of the collection.
C10_TieBreak_Original ==
  /\ StartsInInsertionOrder
  /\ ParentsJustSorted =>
       \A i, j \in DOMAIN Top.vs :
         (i < j /\ depth[Top.vs[i]] = depth[Top.vs[j]]) =>
           Index(named_makers, Top.vs[i]) < Index(named_makers, Top.vs[j])

\* C10, amended: ties among the parents of a node are broken by the order
\* in which the node declares them.
C10_TieBreak ==
  /\ StartsInInsertionOrder
  /\ ParentsJustSorted =>
       \A i, j \in DOMAIN Top.vs :
         (i < j /\ depth[Top.vs[i]] = depth[Top.vs[j]]) =>
           PositionIn(Declared(Top.u), Top.vs[i])
             < PositionIn(Declared(Top.u), Top.vs[j])

C10_Witness ==
  /\ ParentsJustSorted
  /\ Len(Top.vs) = 2
  /\ depth[Top.vs[1]] = depth[Top.vs[2]]
  /\ Top.vs = Declared(Top.u)
  /\ Index(named_makers, Top.vs[1]) > Index(named_makers, Top.vs[2])

====
